---- MODULE Spec2Model ----
(***************************************************************************)
(* Model of src/fairing.rs: the CachedCompression fairing's on_response,   *)
(* the process-wide CACHED_FILES store behind a tokio RwLock, and the      *)
(* ErrorBody shim.  Each task is one call of on_response; tasks run        *)
(* concurrently and interleave at the await points of the handler.         *)
(***************************************************************************)
EXTENDS Integers, Sequences, FiniteSets, TLC

\* ------------------------------------------------------------------ domains

None == "None"

\* Concurrent executions of on_response (worker slots of the runtime).
Tasks == {"t1", "t2"}

\* How many times the transport polls an ErrorBody after on_response returned.
MaxReads == 2

\* CachedEncoding (fairing.rs:16-19)
CachedEncoding == {"Gzip", "Brotli"}

\* cached_path_endings of the fairing under test (the doc example's ".otf"
\* and a script name), as character sequences.
cached_path_endings == << <<".", "o", "t", "f">>, <<"m", ".", "j", "s">> >>

\* Request paths: one that ends with a configured suffix and one that
\* contains a suffix without ending in it.
Paths ==
    { <<"/", "a", ".", "o", "t", "f">>,
      <<"/", "m", ".", "j", "s", "x">> }

\* Accept-Encoding of the request, as the set of codings it lists.
AcceptSets == { {}, {"gzip"}, {"br"}, {"gzip", "br"} }


MediaType(top, sub) == [top |-> top, sub |-> sub]

\* A response that declares no Content-Type.
NoMediaType == MediaType("", "")

\* The headers a route handler may have put on the response, as
\* [content_encoding, content_type]: a stylesheet, a stylesheet the handler
\* compressed itself, an image (excluded by a wildcard) and an archive
\* (excluded by an exact pattern).
HandlerHeaders ==
    { [content_encoding |-> None, content_type |-> MediaType("text", "css")],
      [content_encoding |-> "gzip", content_type |-> MediaType("text", "css")],
      [content_encoding |-> None, content_type |-> MediaType("image", "png")],
      [content_encoding |-> None, content_type |-> MediaType("application", "zip")] }

\* Original response bodies (byte strings); one path may be answered with
\* different bodies by different requests.
Bodies == { <<1>>, <<2, 3>> }

\* Errors the body stream may raise while the adapter drains it.
AdapterErrors == {"connection reset", "unexpected eof"}

\* The message of the error ErrorBody makes up once its own was taken.
AlreadyRead == "ErrorBody already read"

\* The list without its wildcard patterns.
ExclusionsExactOnly ==
    << MediaType("application", "gzip"),
       MediaType("application", "zip"),
       MediaType("application", "octet-stream") >>

\* EXCLUSIONS (fairing.rs:22-28)
EXCLUSIONS ==
    << MediaType("application", "gzip"),
       MediaType("application", "zip"),
       MediaType("image", "*"),
       MediaType("video", "*"),
       MediaType("application", "octet-stream") >>

\* ------------------------------------------------------------ pure helpers


\* A match of the suffix anywhere in the path (str::contains).
contains(path, s) ==
    \E i \in 1..Len(path) :
        /\ i + Len(s) - 1 <= Len(path)
        /\ SubSeq(path, i, i + Len(s) - 1) = s

\* str::ends_with on character sequences
ends_with(path, s) ==
    /\ Len(s) <= Len(path)
    /\ SubSeq(path, Len(path) - Len(s) + 1, Len(path)) = s

\* fairing.rs:169
cache_compressed_responses(path) ==
    \E i \in 1..Len(cached_path_endings) : ends_with(path, cached_path_endings[i])

\* CompressionUtils::accepted_algorithms: (accepts_gzip, accepts_br)
accepted_algorithms(accept) == << "gzip" \in accept, "br" \in accept >>

\* CompressionUtils::already_encoded: the response carries Content-Encoding
already_encoded(resp) == resp.content_encoding # None

\* media-type pattern match: exact type and subtype, or wildcard subtype
MediaMatches(pattern, ct) ==
    /\ pattern.top = ct.top
    /\ (pattern.sub = "*" \/ pattern.sub = ct.sub)

\* CompressionUtils::skip_encoding: a response without a content type is
\* never skipped
skip_encoding(content_type, exclusions) ==
    /\ content_type # NoMediaType
    /\ \E i \in 1..Len(exclusions) : MediaMatches(exclusions[i], content_type)

\* The choice with gzip tried first.
SelectEncodingGzipFirst(accepts_gzip, accepts_br) ==
    IF accepts_gzip THEN "Gzip" ELSE "Brotli"

\* fairing.rs:188-192
SelectEncoding(accepts_gzip, accepts_br) ==
    IF accepts_br THEN "Brotli" ELSE "Gzip"

\* fairing.rs:193-196 with Encoding's Display: the Content-Encoding value
EncodingName(desired) ==
    CASE desired = "Gzip" -> "gzip"
      [] desired = "Brotli" -> "br"

\* First byte of a stream produced by the adapter for an algorithm.
Magic(alg) == IF alg = "Gzip" THEN 31 ELSE 206

\* CompressionUtils::compress_body on a body that could be drained: the
\* output is a function of the input bytes and the algorithm, is not the
\* input, and differs between the two algorithms.
Compress(bytes, alg) == <<Magic(alg), Len(bytes)>> \o bytes

\* A key that leaves the algorithm out.
CacheKeyPathOnly(path, desired) == <<path, "Gzip">>

\* fairing.rs:201 and 242: the HashMap key
CacheKey(path, desired) == <<path, desired>>

\* Response bodies
SizedBody(bytes) == [kind |-> "sized", bytes |-> bytes, len |-> Len(bytes), err |-> None]
NoBody == [kind |-> "none", bytes |-> <<>>, len |-> 0, err |-> None]
\* ErrorBody(Some(err)) set as a streamed body (fairing.rs:142, 224)
ErrorBody(err) == [kind |-> "error", bytes |-> <<>>, len |-> -1, err |-> err]

\* ------------------------------------------------------------------- state

VARIABLES
    cache,            \* CACHED_FILES: the HashMap, a function on the present keys
    readers,          \* tasks holding a read guard of the RwLock
    writer,           \* the task holding the write guard, or None
    waitq,            \* the RwLock's FIFO queue of pending acquisitions
    pc,               \* where each task is in on_response
    request,          \* the task's request: path and Accept-Encoding
    original,         \* the response as the route handler produced it
    response,         \* the response as on_response has left it so far
    desired_encoding, \* the local of that name (fairing.rs:188)
    compressed_body,  \* the local of that name (fairing.rs:218), <<>> before
    outcome,          \* how the task's on_response ended
    calls,            \* adapter invocations made by the task
    late,             \* the request arrived when its key was already cached
    reads,            \* polls of the task's response body by the transport
    lastRead,         \* the error the latest poll returned
    firstOut          \* per key, the buffer of the first insert that landed

vars == << cache, readers, writer, waitq, pc, request, original, response,
           desired_encoding, compressed_body, outcome, calls, late, reads,
           lastRead, firstOut >>

lockVars == << readers, writer, waitq >>
pollVars == << reads, lastRead >>

NoRequest == [path |-> <<>>, accept |-> {}]
NoResponse ==
    [content_encoding |-> None, cache_control |-> None,
     content_type |-> NoMediaType, body |-> NoBody]

\* The response a route handler hands to the fairing.
HandlerResponse(ce, ct, bytes) ==
    [content_encoding |-> ce, cache_control |-> None,
     content_type |-> ct, body |-> SizedBody(bytes)]

\* Response::set_header / set_sized_body / set_streamed_body
set_header(resp, name, value) == [resp EXCEPT ![name] = value]
set_sized_body(resp, bytes) == [resp EXCEPT !.body = SizedBody(bytes)]
set_streamed_body(resp, body) == [resp EXCEPT !.body = body]

\* HashMap::get(..).copied() (fairing.rs:201): <<>> stands for no entry;
\* no stored buffer is empty, the adapter's output starts with a header.
MapGet(map, key) == IF key \in DOMAIN map THEN map[key] ELSE <<>>

\* An insert that extends the buffer already in the slot.
MapInsertMixed(map, key, value) ==
    [k \in DOMAIN map \cup {key} |->
        IF k = key THEN (IF k \in DOMAIN map THEN map[k] \o value ELSE value)
        ELSE map[k]]


\* An insert that keeps the value of a key that is present.
MapInsertIfAbsent(map, key, value) ==
    [k \in DOMAIN map \cup {key} |->
        IF k \in DOMAIN map THEN map[k] ELSE value]

\* HashMap::insert (fairing.rs:242): the slot takes the new value whether
\* or not the key was present.
MapInsert(map, key, value) ==
    [k \in DOMAIN map \cup {key} |-> IF k = key THEN value ELSE map[k]]

\* A guard that is not dropped stays among the lock's readers.
KeepReadGuard(held, t) == held

\* drop(guard) (fairing.rs:202)
DropReadGuard(held, t) == held \ {t}

\* Reading the Option leaves the error in place.
PeekError(slot) == slot

\* Option::take (fairing.rs:150): what is left in self.0
TakeError(slot) == None


\* A dropped acquisition that stays in the queue.
WithoutNothing(q, t) == q

\* The queue without a task's pending acquisition.
Without(q, t) == SelectSeq(q, LAMBDA e : e.task # t)

Init ==
    /\ cache = << >>
    /\ readers = {}
    /\ writer = None
    /\ waitq = << >>
    /\ pc = [t \in Tasks |-> "idle"]
    /\ request = [t \in Tasks |-> NoRequest]
    /\ original = [t \in Tasks |-> NoResponse]
    /\ response = [t \in Tasks |-> NoResponse]
    /\ desired_encoding = [t \in Tasks |-> None]
    /\ compressed_body = [t \in Tasks |-> << >>]
    /\ outcome = [t \in Tasks |-> None]
    /\ calls = [t \in Tasks |-> 0]
    /\ late = [t \in Tasks |-> FALSE]
    /\ reads = [t \in Tasks |-> 0]
    /\ lastRead = [t \in Tasks |-> None]
    /\ firstOut = << >>

\* --------------------------------------------------------------- on_response


\* The gates without the negotiation check.
PassesGatesAcceptIgnored(path, accept, resp) ==
    /\ cache_compressed_responses(path)
    /\ ~already_encoded(resp)
    /\ ~skip_encoding(resp.content_type, EXCLUSIONS)

\* The gates without the already-encoded check.
PassesGatesEncodedIgnored(path, accept, resp) ==
    LET acc == accepted_algorithms(accept) IN
    /\ cache_compressed_responses(path)
    /\ (acc[1] \/ acc[2])
    /\ ~skip_encoding(resp.content_type, EXCLUSIONS)

\* fairing.rs:167-186: the four gates; TRUE when the handler goes on.
PassesGates(path, accept, resp) ==
    LET acc == accepted_algorithms(accept) IN
    /\ cache_compressed_responses(path)
    /\ (acc[1] \/ acc[2])
    /\ ~already_encoded(resp)
    /\ ~skip_encoding(resp.content_type, EXCLUSIONS)


\* A condition that never lets the lookup run.
LookupConditionNever(path, accept) == FALSE

\* fairing.rs:198: the condition around the cache lookup
LookupCondition(path, accept) ==
    LET acc == accepted_algorithms(accept) IN
    cache_compressed_responses(path) /\ (acc[1] \/ acc[2])

\* fairing.rs:217-218: take the body and call the adapter
TakeBodyAndCall(t) ==
    /\ response' = [response EXCEPT ![t].body = NoBody]
    /\ calls' = [calls EXCEPT ![t] = @ + 1]
    /\ pc' = [pc EXCEPT ![t] = "compress"]

\* A request arrives and on_response runs up to its first await
\* (fairing.rs:167-200): the gates, the choice of the algorithm and the
\* request for the read lock.
Start(t) ==
    /\ pc[t] = "idle"
    /\ \E path \in Paths, accept \in AcceptSets, h \in HandlerHeaders,
          bytes \in Bodies :
         LET resp == HandlerResponse(h.content_encoding, h.content_type, bytes)
             acc == accepted_algorithms(accept)
             desired == SelectEncoding(acc[1], acc[2])
         IN
         /\ request' = [request EXCEPT ![t] = [path |-> path, accept |-> accept]]
         /\ original' = [original EXCEPT ![t] = resp]
         /\ IF ~PassesGates(path, accept, resp)
            THEN /\ response' = [response EXCEPT ![t] = resp]
                 /\ pc' = [pc EXCEPT ![t] = "done"]
                 /\ outcome' = [outcome EXCEPT ![t] = "pass"]
                 /\ UNCHANGED << desired_encoding, late, waitq, calls >>
            ELSE /\ desired_encoding' = [desired_encoding EXCEPT ![t] = desired]
                 /\ late' = [late EXCEPT ![t] = CacheKey(path, desired) \in DOMAIN cache]
                 /\ UNCHANGED outcome
                 /\ IF LookupCondition(path, accept)
                    THEN /\ waitq' = Append(waitq, [task |-> t, mode |-> "read"])
                         /\ response' = [response EXCEPT ![t] = resp]
                         /\ pc' = [pc EXCEPT ![t] = "rwait"]
                         /\ UNCHANGED calls
                    ELSE /\ response' = [response EXCEPT ![t] = [resp EXCEPT !.body = NoBody]]
                         /\ calls' = [calls EXCEPT ![t] = @ + 1]
                         /\ pc' = [pc EXCEPT ![t] = "compress"]
                         /\ UNCHANGED waitq
    /\ UNCHANGED << cache, readers, writer, compressed_body, pollVars, firstOut >>

\* CACHED_FILES.read().await completes (fairing.rs:200): the queue is FIFO,
\* a read is granted when no writer holds the lock.
ReadGrant(t) ==
    /\ pc[t] = "rwait"
    /\ waitq # << >>
    /\ Head(waitq) = [task |-> t, mode |-> "read"]
    /\ writer = None
    /\ waitq' = Tail(waitq)
    /\ readers' = readers \cup {t}
    /\ pc' = [pc EXCEPT ![t] = "rheld"]
    /\ UNCHANGED << cache, writer, request, original, response, desired_encoding,
                    compressed_body, outcome, calls, late, pollVars, firstOut >>


\* A hit path that sets Cache-Control as the miss path does.
LookupHitSetsCacheControl(t) ==
    /\ pc[t] = "rheld"
    /\ LET cached_body == MapGet(cache, CacheKey(request[t].path, desired_encoding[t])) IN
       /\ readers' = DropReadGuard(readers, t)
       /\ IF cached_body # << >>
          THEN /\ response' = [response EXCEPT ![t] =
                      set_sized_body(
                          set_header(
                              set_header(@, "content_encoding", EncodingName(desired_encoding[t])),
                              "cache_control", "max-age=31536000"),
                          cached_body)]
               /\ pc' = [pc EXCEPT ![t] = "done"]
               /\ outcome' = [outcome EXCEPT ![t] = "hit"]
               /\ UNCHANGED calls
          ELSE /\ TakeBodyAndCall(t)
               /\ UNCHANGED outcome
    /\ UNCHANGED << cache, writer, waitq, request, original, desired_encoding,
                    compressed_body, late, pollVars, firstOut >>

\* fairing.rs:201-218: get the entry, drop the guard; on a hit set the
\* header and the body and return, on a miss take the body and call the
\* adapter.
Lookup(t) ==
    /\ pc[t] = "rheld"
    /\ LET cached_body == MapGet(cache, CacheKey(request[t].path, desired_encoding[t])) IN
       /\ readers' = DropReadGuard(readers, t)
       /\ IF cached_body # << >>
          THEN /\ response' = [response EXCEPT ![t] =
                      set_sized_body(
                          set_header(@, "content_encoding", EncodingName(desired_encoding[t])),
                          cached_body)]
               /\ pc' = [pc EXCEPT ![t] = "done"]
               /\ outcome' = [outcome EXCEPT ![t] = "hit"]
               /\ UNCHANGED calls
          ELSE /\ TakeBodyAndCall(t)
               /\ UNCHANGED outcome
    /\ UNCHANGED << cache, writer, waitq, request, original, desired_encoding,
                    compressed_body, late, pollVars, firstOut >>


\* A success path that leaves Cache-Control out.
AdapterOkWithoutCacheControl(t) ==
    /\ pc[t] = "compress"
    /\ LET out == Compress(original[t].body.bytes, desired_encoding[t]) IN
       /\ compressed_body' = [compressed_body EXCEPT ![t] = out]
       /\ response' = [response EXCEPT ![t] =
              set_sized_body(
                  set_header(@, "content_encoding", EncodingName(desired_encoding[t])),
                  out)]
    /\ waitq' = Append(waitq, [task |-> t, mode |-> "write"])
    /\ pc' = [pc EXCEPT ![t] = "wwait"]
    /\ UNCHANGED << cache, readers, writer, request, original, desired_encoding,
                    outcome, calls, late, pollVars, firstOut >>

\* compress_body(..).await returns Ok (fairing.rs:221, 228-240): headers and
\* body are set and the write lock is requested.
AdapterOk(t) ==
    /\ pc[t] = "compress"
    /\ LET out == Compress(original[t].body.bytes, desired_encoding[t]) IN
       /\ compressed_body' = [compressed_body EXCEPT ![t] = out]
       /\ response' = [response EXCEPT ![t] =
              set_sized_body(
                  set_header(
                      set_header(@, "content_encoding", EncodingName(desired_encoding[t])),
                      "cache_control", "max-age=31536000"),
                  out)]
    /\ waitq' = Append(waitq, [task |-> t, mode |-> "write"])
    /\ pc' = [pc EXCEPT ![t] = "wwait"]
    /\ UNCHANGED << cache, readers, writer, request, original, desired_encoding,
                    outcome, calls, late, pollVars, firstOut >>


\* A failure path that sets the success headers before it returns.
AdapterErrSetsHeaders(t) ==
    /\ pc[t] = "compress"
    /\ \E err \in AdapterErrors :
         response' = [response EXCEPT ![t] =
             set_streamed_body(
                 set_header(
                     set_header(@, "content_encoding", EncodingName(desired_encoding[t])),
                     "cache_control", "max-age=31536000"),
                 ErrorBody(err))]
    /\ pc' = [pc EXCEPT ![t] = "done"]
    /\ outcome' = [outcome EXCEPT ![t] = "failed"]
    /\ UNCHANGED << cache, lockVars, request, original, desired_encoding,
                    compressed_body, calls, late, pollVars, firstOut >>

\* A failure path that stores what the adapter had produced so far.
AdapterErrStoresPartial(t) ==
    /\ pc[t] = "compress"
    /\ \E err \in AdapterErrors :
         response' = [response EXCEPT ![t] = set_streamed_body(@, ErrorBody(err))]
    /\ cache' = MapInsert(cache, CacheKey(request[t].path, desired_encoding[t]),
                          <<Magic(desired_encoding[t])>>)
    /\ pc' = [pc EXCEPT ![t] = "done"]
    /\ outcome' = [outcome EXCEPT ![t] = "failed"]
    /\ UNCHANGED << lockVars, request, original, desired_encoding,
                    compressed_body, calls, late, pollVars, firstOut >>

\* compress_body(..).await returns Err (fairing.rs:222-226)
AdapterErr(t) ==
    /\ pc[t] = "compress"
    /\ \E err \in AdapterErrors :
         response' = [response EXCEPT ![t] = set_streamed_body(@, ErrorBody(err))]
    /\ pc' = [pc EXCEPT ![t] = "done"]
    /\ outcome' = [outcome EXCEPT ![t] = "failed"]
    /\ UNCHANGED << cache, lockVars, request, original, desired_encoding,
                    compressed_body, calls, late, pollVars, firstOut >>

\* CACHED_FILES.write().await completes (fairing.rs:239-241): granted at the
\* head of the queue once no guard is held.
WriteGrant(t) ==
    /\ pc[t] = "wwait"
    /\ waitq # << >>
    /\ Head(waitq) = [task |-> t, mode |-> "write"]
    /\ writer = None
    /\ readers = {}
    /\ waitq' = Tail(waitq)
    /\ writer' = t
    /\ pc' = [pc EXCEPT ![t] = "wheld"]
    /\ UNCHANGED << cache, readers, request, original, response, desired_encoding,
                    compressed_body, outcome, calls, late, pollVars, firstOut >>

\* fairing.rs:242-243: insert the leaked buffer, drop the guard, return.
Insert(t) ==
    /\ pc[t] = "wheld"
    /\ LET key == CacheKey(request[t].path, desired_encoding[t]) IN
       /\ cache' = MapInsert(cache, key, compressed_body[t])
       /\ firstOut' = IF key \in DOMAIN firstOut THEN firstOut
                      ELSE MapInsert(firstOut, key, compressed_body[t])
    /\ writer' = None
    /\ pc' = [pc EXCEPT ![t] = "done"]
    /\ outcome' = [outcome EXCEPT ![t] = "populated"]
    /\ UNCHANGED << readers, waitq, request, original, response, desired_encoding,
                    compressed_body, calls, late, pollVars >>

\* The future of on_response is dropped at one of its await points; a
\* pending lock acquisition leaves the queue with it.
Cancel(t) ==
    /\ pc[t] \in {"rwait", "compress", "wwait"}
    /\ waitq' = Without(waitq, t)
    /\ pc' = [pc EXCEPT ![t] = "done"]
    /\ outcome' = [outcome EXCEPT ![t] = "cancelled"]
    /\ UNCHANGED << cache, readers, writer, request, original, response,
                    desired_encoding, compressed_body, calls, late, pollVars, firstOut >>

\* ErrorBody::poll_read (fairing.rs:145-155): the transport polls the body
\* of a finished response.
PollRead(t) ==
    /\ pc[t] = "done"
    /\ response[t].body.kind = "error"
    /\ reads[t] < MaxReads
    /\ LET taken == response[t].body.err
           err == IF taken # None THEN taken ELSE AlreadyRead
       IN
       /\ response' = [response EXCEPT ![t].body.err = TakeError(taken)]
       /\ lastRead' = [lastRead EXCEPT ![t] = err]
    /\ reads' = [reads EXCEPT ![t] = @ + 1]
    /\ UNCHANGED << cache, lockVars, pc, request, original, desired_encoding,
                    compressed_body, outcome, calls, late, firstOut >>

\* The response has left; the slot is free for the next request.
Retire(t) ==
    /\ pc[t] = "done"
    /\ pc' = [pc EXCEPT ![t] = "idle"]
    /\ request' = [request EXCEPT ![t] = NoRequest]
    /\ original' = [original EXCEPT ![t] = NoResponse]
    /\ response' = [response EXCEPT ![t] = NoResponse]
    /\ desired_encoding' = [desired_encoding EXCEPT ![t] = None]
    /\ compressed_body' = [compressed_body EXCEPT ![t] = << >>]
    /\ outcome' = [outcome EXCEPT ![t] = None]
    /\ calls' = [calls EXCEPT ![t] = 0]
    /\ late' = [late EXCEPT ![t] = FALSE]
    /\ reads' = [reads EXCEPT ![t] = 0]
    /\ lastRead' = [lastRead EXCEPT ![t] = None]
    /\ UNCHANGED << cache, lockVars, firstOut >>

\* The steps a task takes by itself once its request has arrived.
Progress(t) ==
    \/ ReadGrant(t)
    \/ Lookup(t)
    \/ AdapterOk(t)
    \/ AdapterErr(t)
    \/ WriteGrant(t)
    \/ Insert(t)

Next ==
    \E t \in Tasks :
        \/ Start(t)
        \/ Progress(t)
        \/ Cancel(t)
        \/ PollRead(t)
        \/ Retire(t)

Spec == Init /\ [][Next]_vars

\* The scheduler runs every task that can take a step: a granted lock
\* acquisition completes, a guard holder runs on to the drop of its guard,
\* and the adapter returns.
FairSpec == Spec /\ \A t \in Tasks : WF_vars(Progress(t))

\* ------------------------------------------------------------------ claims

TaskKey(t) == CacheKey(request[t].path, desired_encoding[t])
Finished(t) == pc[t] = "done"
InFlight(t) == pc[t] \in {"rwait", "rheld", "compress", "wwait", "wheld"}

TypeOK ==
    /\ readers \subseteq Tasks
    /\ writer \in Tasks \cup {None}
    /\ \A t \in Tasks :
        /\ pc[t] \in {"idle", "rwait", "rheld", "compress", "wwait", "wheld", "done"}
        /\ calls[t] \in 0..1
        /\ reads[t] \in 0..MaxReads
        /\ outcome[t] \in {None, "pass", "hit", "populated", "failed", "cancelled"}
        /\ (pc[t] = "done") = (outcome[t] # None)

\* C1 (as claimed): a request that arrives when its key is already in the
\* store and passes the gates is answered, if it runs to completion, with
\* the buffer of the first insert for that key, without an adapter call.
C1_LaterRequestGetsFirstOutput ==
    \A t \in Tasks :
        (Finished(t) /\ late[t] /\ outcome[t] # "cancelled") =>
            /\ outcome[t] = "hit"
            /\ calls[t] = 0
            /\ response[t].body = SizedBody(firstOut[TaskKey(t)])

\* C2: every buffer in the store is the whole output of one successful
\* adapter call made by a task for the key's path with the key's algorithm:
\* a slot only changes by the insert of a task holding the write guard, to
\* that task's compressed_body, which is the compression of the body the
\* task took from its response; no slot holds a mix or a part.
C2_StoredBufferIsOneWholeOutput ==
    /\ [](\A k \in DOMAIN cache : \E b \in Bodies : cache[k] = Compress(b, k[2]))
    /\ [][\A k \in DOMAIN cache' :
            (k \notin DOMAIN cache \/ cache'[k] # cache[k]) =>
                \E t \in Tasks :
                    /\ pc[t] = "wheld" /\ writer = t
                    /\ calls[t] = 1
                    /\ k = <<request[t].path, desired_encoding[t]>>
                    /\ cache'[k] = compressed_body[t]
                    /\ compressed_body[t] = Compress(original[t].body.bytes, k[2])]_vars

\* Two first-time requests for one key raced: one has inserted, the other
\* holds the write guard with a different buffer for the same key.
C2_Witness ==
    \E t, u \in Tasks :
        /\ t # u
        /\ outcome[u] = "populated" /\ ~late[u] /\ ~late[t]
        /\ pc[t] = "wheld"
        /\ TaskKey(t) = TaskKey(u)
        /\ TaskKey(t) \in DOMAIN cache
        /\ compressed_body[t] # cache[TaskKey(t)]

\* Some task can take a step of its own whenever a task waits for the lock.
NoLockDeadlock ==
    (\E t \in Tasks : pc[t] \in {"rwait", "wwait"}) =>
        \E u \in Tasks : ENABLED Progress(u)

Rank(p) ==
    CASE p = "idle" -> 0 [] p = "rwait" -> 1 [] p = "rheld" -> 2
      [] p = "compress" -> 3 [] p = "wwait" -> 4 [] p = "wheld" -> 5
      [] p = "done" -> 6

\* C3: under fair scheduling and an adapter that returns, every task that
\* has started reaches its end; it does so in one pass (its position only
\* moves forward and the adapter is called at most once); and no state
\* with a task waiting for the lock is stuck.
C3_EveryTaskTerminates ==
    /\ \A t \in Tasks : InFlight(t) ~> Finished(t)
    /\ []NoLockDeadlock
    /\ [][\A t \in Tasks :
            /\ calls'[t] <= 1
            /\ (pc'[t] # pc[t] /\ pc[t] # "done") => Rank(pc'[t]) > Rank(pc[t])]_vars

\* A task waits for the write lock behind a read guard that is still held.
C3_Witness ==
    \E t, u \in Tasks :
        /\ pc[t] = "wwait" /\ pc[u] = "rheld"
        /\ waitq # << >> /\ Head(waitq).task = t

\* C4 (as claimed): a key that is in the store stays in it with the same
\* value.
C4_StoreIsAppendOnly ==
    [][\A k \in DOMAIN cache : k \in DOMAIN cache' /\ cache'[k] = cache[k]]_vars

\* The algorithm the claim expects for an Accept-Encoding set.
Expected(accept) == IF "br" \in accept THEN "Brotli" ELSE "Gzip"

\* C5: for a response that passed the gates, the algorithm is Brotli
\* whenever br is accepted (so also when both are) and Gzip only when br is
\* not; the same algorithm is in the adapter's output, in the
\* Content-Encoding header and in the key of the entry the task stored.
C5_BrotliPreferred ==
    \A t \in Tasks :
        (pc[t] # "idle" /\ outcome[t] # "pass") =>
            LET alg == Expected(request[t].accept) IN
            /\ desired_encoding[t] = alg
            /\ (desired_encoding[t] = "Gzip") = ("br" \notin request[t].accept)
            /\ compressed_body[t] # << >> =>
                   /\ compressed_body[t] = Compress(original[t].body.bytes, alg)
                   /\ response[t].content_encoding = (IF alg = "Brotli" THEN "br" ELSE "gzip")
            /\ outcome[t] = "hit" =>
                   /\ response[t].content_encoding = (IF alg = "Brotli" THEN "br" ELSE "gzip")
                   /\ response[t].body.bytes[1] = Magic(alg)
            /\ outcome[t] = "populated" =>
                   /\ <<request[t].path, alg>> \in DOMAIN cache
                   /\ cache[<<request[t].path, alg>>][1] = Magic(alg)

\* A request accepting both codings has populated the store under Brotli.
C5_Witness ==
    \E t \in Tasks :
        /\ request[t].accept = {"gzip", "br"}
        /\ outcome[t] = "populated"
        /\ response[t].content_encoding = "br"
        /\ <<request[t].path, "Brotli">> \in DOMAIN cache
        /\ <<request[t].path, "Gzip">> \notin DOMAIN cache

\* C6: a gzip-only request populates (path, Gzip); a brotli-only request
\* whose (path, Brotli) entry is absent misses even when (path, Gzip) is
\* present, calls the adapter with brotli, and its insert adds
\* (path, Brotli) and leaves the (path, Gzip) entry as it was.
C6_EntriesSeparateByAlgorithm ==
    [][\A t \in Tasks :
        LET p == request[t].path
            gz == <<p, "Gzip">>
            br == <<p, "Brotli">>
        IN
        /\ (pc[t] = "rheld" /\ pc'[t] # "rheld" /\ request[t].accept = {"br"}
                /\ br \notin DOMAIN cache) =>
              /\ pc'[t] = "compress"
              /\ calls'[t] = calls[t] + 1
              /\ desired_encoding'[t] = "Brotli"
              /\ response'[t].content_encoding = None
        /\ (pc[t] = "compress" /\ pc'[t] = "wwait" /\ request[t].accept = {"br"}) =>
              compressed_body'[t] = Compress(original[t].body.bytes, "Brotli")
        /\ (pc[t] = "wheld" /\ pc'[t] = "done" /\ request[t].accept = {"br"}) =>
              /\ br \in DOMAIN cache' /\ cache'[br] = compressed_body[t]
              /\ (gz \in DOMAIN cache') = (gz \in DOMAIN cache)
              /\ gz \in DOMAIN cache => cache'[gz] = cache[gz]
        /\ (pc[t] = "wheld" /\ pc'[t] = "done" /\ request[t].accept = {"gzip"}) =>
              /\ gz \in DOMAIN cache'
              /\ cache'[gz] = Compress(original[t].body.bytes, "Gzip")
              /\ (br \in DOMAIN cache') = (br \in DOMAIN cache)
              /\ br \in DOMAIN cache => cache'[br] = cache[br]
      ]_vars

\* A brotli-only request has populated (path, Brotli) beside the
\* (path, Gzip) entry that a gzip-only request stored.
C6_Witness ==
    \E t, u \in Tasks :
        LET p == request[t].path IN
        /\ request[t].accept = {"br"} /\ outcome[t] = "populated"
        /\ request[u].accept = {"gzip"} /\ outcome[u] = "populated"
        /\ request[u].path = p
        /\ <<p, "Gzip">> \in DOMAIN cache /\ <<p, "Brotli">> \in DOMAIN cache
        /\ cache[<<p, "Gzip">>] = response[u].body.bytes
        /\ cache[<<p, "Brotli">>] = response[t].body.bytes
        /\ cache[<<p, "Gzip">>] # cache[<<p, "Brotli">>]

\* C7: after an adapter failure the body is an ErrorBody holding the
\* adapter's error; the first poll fails with exactly that error and
\* consumes it, every later poll fails with the "already read" error, which
\* is not the adapter's, and no poll yields bytes.
C7_ErrorBodyReads ==
    /\ [](\A t \in Tasks :
            outcome[t] = "failed" =>
                /\ response[t].body.kind = "error"
                /\ response[t].body.bytes = << >>
                /\ reads[t] = 0 => response[t].body.err \in AdapterErrors
                /\ reads[t] >= 1 => response[t].body.err = None
                /\ reads[t] = 1 => lastRead[t] \in AdapterErrors
                /\ reads[t] >= 2 => (lastRead[t] = AlreadyRead /\ lastRead[t] \notin AdapterErrors))
    /\ [][\A t \in Tasks :
            /\ (pc[t] = "compress" /\ outcome'[t] = "failed") =>
                  /\ response'[t].body.kind = "error"
                  /\ response'[t].body.err \in AdapterErrors
            /\ (reads'[t] = reads[t] + 1) =>
                  /\ response'[t].body.bytes = << >> /\ response'[t].body.kind = "error"
                  /\ lastRead'[t] = (IF reads[t] = 0 THEN response[t].body.err ELSE AlreadyRead)
       ]_vars

\* The body of a failed response has been polled a second time.
C7_Witness ==
    \E t \in Tasks :
        /\ outcome[t] = "failed"
        /\ reads[t] = 2
        /\ lastRead[t] = AlreadyRead

\* C8: a task whose adapter call fails leaves the store alone: the failing
\* return changes no slot and ends the task, the task never asks for or
\* holds the write lock, and any later change of the store is the insert of
\* another task.
C8_FailureWritesNothing ==
    /\ [](\A t \in Tasks :
            outcome[t] = "failed" =>
                /\ compressed_body[t] = << >>
                /\ writer # t
                /\ \A i \in 1..Len(waitq) : waitq[i].task # t)
    /\ [][\A t \in Tasks :
            /\ (pc[t] = "compress" /\ outcome'[t] = "failed") =>
                  /\ cache' = cache
                  /\ pc'[t] = "done"
            /\ (outcome[t] = "failed" /\ cache' # cache) =>
                  \E u \in Tasks \ {t} : pc[u] = "wheld"
       ]_vars

\* A request has failed and its key has no entry.
C8_Witness ==
    \E t \in Tasks :
        /\ outcome[t] = "failed"
        /\ calls[t] = 1
        /\ TaskKey(t) \notin DOMAIN cache

\* The media types the fairing's documentation lists as never compressed:
\* application/gzip, application/zip, image/*, video/*,
\* application/octet-stream.
DocumentedExclusion(ct) ==
    \/ ct.top \in {"image", "video"}
    \/ (ct.top = "application" /\ ct.sub \in {"gzip", "zip", "octet-stream"})

\* C9: a response whose media type matches an exclusion pattern comes out
\* of on_response as it went in, with no adapter call, whether or not the
\* store holds an entry for the request's path and algorithm.
C9_ExcludedTypeUntouched ==
    \A t \in Tasks :
        (pc[t] # "idle" /\ DocumentedExclusion(original[t].content_type)) =>
            /\ Finished(t) /\ outcome[t] = "pass"
            /\ response[t] = original[t]
            /\ calls[t] = 0

\* An image was requested on a cacheable path, with brotli accepted, while
\* the store held the entry for that path and algorithm.
C9_Witness ==
    \E t \in Tasks :
        /\ Finished(t)
        /\ original[t].content_type = MediaType("image", "png")
        /\ request[t].accept = {"br"}
        /\ <<request[t].path, "Brotli">> \in DOMAIN cache
        /\ response[t] = original[t]

\* C10: a response that already carries Content-Encoding is left as it is:
\* the task ends at once, never waits for or holds a lock of the store,
\* changes neither headers nor body and never calls the adapter.
C10_AlreadyEncodedUntouched ==
    \A t \in Tasks :
        (pc[t] # "idle" /\ original[t].content_encoding # None) =>
            /\ Finished(t) /\ outcome[t] = "pass"
            /\ response[t] = original[t]
            /\ calls[t] = 0
            /\ t \notin readers /\ writer # t
            /\ \A i \in 1..Len(waitq) : waitq[i].task # t

\* An already-encoded stylesheet was requested on a cacheable path, with
\* gzip accepted, while the store held the entry for that path under Gzip.
C10_Witness ==
    \E t \in Tasks :
        /\ Finished(t)
        /\ original[t].content_encoding = "gzip"
        /\ request[t].accept = {"gzip"}
        /\ <<request[t].path, "Gzip">> \in DOMAIN cache
        /\ response[t].body = original[t].body

\* The Content-Encoding value the claims expect for an Accept-Encoding set.
ExpectedName(accept) == IF "br" \in accept THEN "br" ELSE "gzip"

\* C11: a miss whose compression succeeded and whose task ran to its end
\* leaves the response with Content-Encoding of the chosen algorithm,
\* Cache-Control max-age=31536000 and a sized body holding the compressed
\* bytes with their length; the step that ends it puts those same bytes in
\* the store under (path, algorithm).
C11_MissPopulates ==
    /\ [](\A t \in Tasks :
            outcome[t] = "populated" =>
                LET alg == Expected(request[t].accept)
                    out == Compress(original[t].body.bytes, alg)
                IN
                /\ response[t].content_encoding = ExpectedName(request[t].accept)
                /\ response[t].cache_control = "max-age=31536000"
                /\ response[t].body.kind = "sized"
                /\ response[t].body.bytes = out
                /\ response[t].body.len = Len(out)
                /\ response[t].content_type = original[t].content_type
                /\ <<request[t].path, alg>> \in DOMAIN cache)
    /\ [][\A t \in Tasks :
            (outcome[t] = None /\ outcome'[t] = "populated") =>
                LET k == <<request[t].path, Expected(request[t].accept)>> IN
                /\ k \in DOMAIN cache'
                /\ cache'[k] = response'[t].body.bytes
                /\ response'[t] = response[t]
       ]_vars

\* A first request for a key has populated the store with its own output.
C11_Witness ==
    \E t \in Tasks :
        /\ outcome[t] = "populated" /\ ~late[t]
        /\ request[t].accept = {"br"}
        /\ response[t].cache_control = "max-age=31536000"
        /\ response[t].body.len = 4
        /\ cache[<<request[t].path, "Brotli">>] = response[t].body.bytes

\* C12: a hit sets Content-Encoding to the chosen algorithm and replaces
\* the body by the stored buffer with its length, leaves Cache-Control as
\* the handler left it (absent), makes no adapter call and leaves the store
\* as it was.
C12_HitServesStoredBuffer ==
    /\ [](\A t \in Tasks :
            outcome[t] = "hit" =>
                /\ response[t].content_encoding = ExpectedName(request[t].accept)
                /\ response[t].cache_control = original[t].cache_control
                /\ response[t].cache_control = None
                /\ response[t].body.kind = "sized"
                /\ response[t].body.len = Len(response[t].body.bytes)
                /\ calls[t] = 0)
    /\ [][\A t \in Tasks :
            (outcome[t] = None /\ outcome'[t] = "hit") =>
                LET k == <<request[t].path, Expected(request[t].accept)>> IN
                /\ k \in DOMAIN cache
                /\ response'[t].body.bytes = cache[k]
                /\ response'[t].body.len = Len(cache[k])
                /\ cache' = cache
       ]_vars

\* A request was served from the store a buffer that is not the
\* compression of its own body.
C12_Witness ==
    \E t \in Tasks :
        /\ outcome[t] = "hit"
        /\ request[t].accept = {"br"}
        /\ response[t].content_encoding = "br"
        /\ response[t].cache_control = None
        /\ response[t].body.bytes # Compress(original[t].body.bytes, "Brotli")
        /\ response[t].body.bytes = cache[<<request[t].path, "Brotli">>]

\* A response the fairing's documentation says is compressed: the client
\* accepts gzip or brotli, the handler did not encode it, and its media
\* type is none of the documented exclusions.
Compressible(t) ==
    /\ request[t].accept # {}
    /\ original[t].content_encoding = None
    /\ ~DocumentedExclusion(original[t].content_type)

\* C13 (as claimed): every such response whose processing ended without an
\* adapter failure or a cancellation leaves with Content-Encoding set and
\* its body compressed, whatever the request path.
C13_CompressesAllResponses ==
    \A t \in Tasks :
        (Finished(t) /\ Compressible(t) /\ outcome[t] \notin {"failed", "cancelled"}) =>
            /\ response[t].content_encoding = ExpectedName(request[t].accept)
            /\ response[t].body.kind = "sized"
            /\ response[t].body.bytes # original[t].body.bytes

\* C14: there is no single-flight. A lookup that finds no entry goes on to
\* the adapter whatever the other tasks are doing for the same key, and an
\* insert puts the task's own buffer in the slot whether or not the key is
\* present, leaving the other slots alone: the slot holds the buffer of the
\* insert that took the write lock last.
C14_LastWriteWins ==
    [][\A t \in Tasks :
        LET k == <<request[t].path, Expected(request[t].accept)>> IN
        /\ (pc[t] = "rheld" /\ pc'[t] # "rheld" /\ k \notin DOMAIN cache) =>
              /\ pc'[t] = "compress"
              /\ calls'[t] = 1
        /\ (pc[t] = "wheld" /\ pc'[t] = "done") =>
              /\ DOMAIN cache' = DOMAIN cache \cup {k}
              /\ cache'[k] = compressed_body[t]
              /\ \A j \in DOMAIN cache : j # k => cache'[j] = cache[j]
      ]_vars

\* Two requests for one key both missed, both called the adapter and both
\* inserted; their bodies differ, and the slot holds the buffer of the
\* second insert, not of the first.
C14_Witness ==
    \E t, u \in Tasks :
        LET k == <<request[t].path, Expected(request[t].accept)>> IN
        /\ t # u
        /\ outcome[t] = "populated" /\ outcome[u] = "populated"
        /\ ~late[t] /\ ~late[u]
        /\ calls[t] = 1 /\ calls[u] = 1
        /\ k = <<request[u].path, Expected(request[u].accept)>>
        /\ response[t].body.bytes # response[u].body.bytes
        /\ firstOut[k] = response[u].body.bytes
        /\ cache[k] = response[t].body.bytes

\* C15: a task holds a read guard only while it is at the lookup and the
\* write guard only while it is at the insert: none while it awaits the
\* adapter, no read guard while it waits for or holds the write lock, never
\* two guards at once; and once it has used the lookup's result (a hit
\* served, or the adapter called) its read guard is gone.
C15_LockDiscipline ==
    \A t \in Tasks :
        /\ (t \in readers) = (pc[t] = "rheld")
        /\ (writer = t) = (pc[t] = "wheld")
        /\ pc[t] = "compress" => (t \notin readers /\ writer # t)
        /\ pc[t] \in {"wwait", "wheld"} => t \notin readers
        /\ ~(t \in readers /\ writer = t)
        /\ (outcome[t] = "hit" \/ calls[t] > 0) => t \notin readers
        /\ writer # None => readers = {}

\* One task awaits the adapter while another holds the write guard.
C15_Witness ==
    \E t, u \in Tasks :
        /\ pc[t] = "compress" /\ calls[t] = 1
        /\ pc[u] = "wheld" /\ writer = u
        /\ readers = {}

\* C16: a task dropped at an await point before its insert writes nothing:
\* the drop leaves the store and the guards as they were and takes the
\* task's pending acquisition out of the queue, the dropped task never
\* holds or waits for the lock afterwards, any later change of the store is
\* another task's insert, and every other task in flight still reaches its
\* end.
C16_CancelInsertsNothing ==
    /\ [](\A t \in Tasks :
            outcome[t] = "cancelled" =>
                /\ t \notin readers /\ writer # t
                /\ \A i \in 1..Len(waitq) : waitq[i].task # t)
    /\ [][\A t \in Tasks :
            /\ (outcome[t] = None /\ outcome'[t] = "cancelled") =>
                  /\ pc[t] \in {"rwait", "compress", "wwait"}
                  /\ cache' = cache
                  /\ readers' = readers /\ writer' = writer
                  /\ \A i \in 1..Len(waitq') : waitq'[i].task # t
                  /\ \A u \in Tasks \ {t} :
                        (\E i \in 1..Len(waitq) : waitq[i].task = u) =>
                        (\E i \in 1..Len(waitq') : waitq'[i].task = u)
            /\ (outcome[t] = "cancelled" /\ cache' # cache) =>
                  \E u \in Tasks \ {t} : pc[u] = "wheld"
       ]_vars
    /\ \A u \in Tasks :
          (InFlight(u) /\ \E t \in Tasks \ {u} : outcome[t] = "cancelled")
              ~> Finished(u)

\* A task was dropped while its adapter call was in flight, its key has no
\* entry from it, and another task waits for the store's lock.
C16_Witness ==
    \E t, u \in Tasks :
        /\ outcome[t] = "cancelled"
        /\ calls[t] = 1 /\ response[t].body.kind = "none"
        /\ compressed_body[t] = << >>
        /\ pc[u] \in {"rwait", "wwait"}

\* The path is some prefix followed by ".otf" or by "m.js", the suffixes
\* the fairing was configured with.
EndsWithConfiguredSuffix(path) ==
    \E n \in 0..Len(path) :
        SubSeq(path, n + 1, Len(path)) \in
            { <<".", "o", "t", "f">>, <<"m", ".", "j", "s">> }

\* The task is outside the store's lock: no guard, no pending acquisition.
OffTheLock(t) ==
    /\ t \notin readers /\ writer # t
    /\ \A i \in 1..Len(waitq) : waitq[i].task # t

C18_StepsInOrder ==
    [][\A t \in Tasks :
        LET k == <<request[t].path, Expected(request[t].accept)>> IN
        /\ calls'[t] > calls[t] =>
              /\ pc[t] = "rheld" /\ t \in readers
              /\ k \notin DOMAIN cache
              /\ calls[t] = 0 /\ calls'[t] = 1
              /\ pc'[t] = "compress"
        /\ (outcome[t] = "failed" /\ pc'[t] # "idle") =>
              (pc'[t] = "done" /\ calls'[t] = 1)
        /\ (pc[t] = "wheld" /\ pc'[t] # "wheld") =>
              /\ calls[t] = 1
              /\ compressed_body[t] # << >>
              /\ response[t].content_encoding = ExpectedName(request[t].accept)
              /\ response[t].cache_control = "max-age=31536000"
              /\ response[t].body = SizedBody(compressed_body[t])
              /\ response'[t] = response[t]
        /\ (pc'[t] # pc[t] /\ pc[t] # "done") => Rank(pc'[t]) > Rank(pc[t])
        /\ (pc'[t] # pc[t] /\ pc[t] = "done") => pc'[t] = "idle"
      ]_vars
    /\ [][cache' # cache => \E t \in Tasks : pc[t] = "wheld" /\ pc'[t] = "done"]_vars

\* For one key, one task failed after its single adapter call and another
\* populated the store after its own.
C18_Witness ==
    \E t, u \in Tasks :
        /\ outcome[t] = "failed" /\ calls[t] = 1
        /\ outcome[u] = "populated" /\ calls[u] = 1
        /\ request[t] = request[u]

\* C19: a request that accepts neither gzip nor brotli passes through with
\* headers and body as they were, no adapter call and no access to the
\* store, also on a cacheable path whose entries are in the store.
C19_NoAcceptedCodingUntouched ==
    \A t \in Tasks :
        (pc[t] # "idle" /\ request[t].accept \cap {"gzip", "br"} = {}) =>
            /\ Finished(t) /\ outcome[t] = "pass"
            /\ response[t] = original[t]
            /\ calls[t] = 0
            /\ OffTheLock(t)

\* A request without an accepted coding, for a stylesheet on a cacheable
\* path, has passed through while the store held both entries of the path.
C19_Witness ==
    \E t \in Tasks :
        /\ Finished(t)
        /\ request[t].accept = {}
        /\ request[t].path = <<"/", "a", ".", "o", "t", "f">>
        /\ original[t].content_encoding = None
        /\ original[t].content_type = MediaType("text", "css")
        /\ <<request[t].path, "Gzip">> \in DOMAIN cache
        /\ <<request[t].path, "Brotli">> \in DOMAIN cache
        /\ response[t] = original[t]

\* C20: when a task has ended, Content-Encoding differs from what the
\* handler left exactly if the body was replaced by compressed bytes, and
\* then the header names the algorithm those bytes were produced with;
\* after an adapter failure Content-Encoding and Cache-Control are as the
\* handler left them (absent) and the body is the error body.
C20_HeaderMatchesBody ==
    \A t \in Tasks :
        Finished(t) =>
            LET setCE == response[t].content_encoding # original[t].content_encoding
                replaced == /\ response[t].body.kind = "sized"
                            /\ response[t].body.bytes # original[t].body.bytes
            IN
            /\ setCE = replaced
            /\ setCE =>
                  /\ response[t].content_encoding \in {"gzip", "br"}
                  /\ response[t].body.bytes[1] =
                        (IF response[t].content_encoding = "br" THEN 206 ELSE 31)
                  /\ response[t].body.len = Len(response[t].body.bytes)
            /\ outcome[t] = "failed" =>
                  /\ response[t].content_encoding = None
                  /\ response[t].cache_control = None
                  /\ response[t].body.kind = "error"

\* One response ended with the error body and no header set while another
\* was served from the store.
C20_Witness ==
    \E t, u \in Tasks :
        /\ outcome[t] = "failed"
        /\ response[t].content_encoding = None
        /\ response[t].body.kind = "error"
        /\ outcome[u] = "hit"
        /\ response[u].content_encoding # None

====
